---- MODULE Spec2Model ----
(***************************************************************************)
(* Diabetes Risk Predictor (src/app.py): a Streamlit form of 19 widgets,   *)
(* the feature list built from them on "Generate Risk Assessment", and the *)
(* model invoker (load_model under st.cache_resource, predict).            *)
(*                                                                         *)
(* Python numbers are records [ty, x10]: ty is the Python type and x10 is  *)
(* the value in tenths, so 25.0 is F(250), the int 3 is I(3), and 1 == 1.0 *)
(* compares equal (PyEq) although the two values are not identical.        *)
(***************************************************************************)
EXTENDS Integers, Sequences, FiniteSets, TLC

VARIABLES widgets, pc, feature_list, batches, result, display,
          cache, lock, artifact, reads, changes

vars == <<widgets, pc, feature_list, batches, result, display,
          cache, lock, artifact, reads, changes>>

(* ------------------------------ bounds --------------------------------- *)

\* Browser sessions of the one server process.
NumSessions == 2
\* At most this many widgets differ from their defaults in a session.
MaxEdits == 5
\* How often the environment replaces, removes or damages predictor.pickle.
MaxArtifactChanges == 2
\* The count of reads of predictor.pickle saturates here.
ReadsCap == 2

Sessions == 1..NumSessions

(* --------------------------- Python values ----------------------------- *)

F(x10) == [ty |-> "float", x10 |-> x10]
I(n) == [ty |-> "int", x10 |-> 10 * n]
None == [ty |-> "NoneType", x10 |-> 0]
\* An exception left predict; no value was returned.
Raised == [ty |-> "exception", x10 |-> 0]
\* No submission has been made in the current script run.
Pending == [ty |-> "pending", x10 |-> 0]

IsNumber(v) == v.ty \in {"float", "int"}
\* Python's == on numbers compares the values, not the types.
PyEq(a, b) == IsNumber(a) /\ IsNumber(b) /\ a.x10 = b.x10

(* ------------------------------ widgets -------------------------------- *)

BMI_MIN == 180
BMI_MAX == 500
BMI_DEFAULT == 250
DAYS_MAX == 30

\* Variant: the Yes option carries the int 1 instead of 1.0.
YesNo_IntYes == {<<"No", F(0)>>, <<"Yes", I(1)>>}

YesNo == {<<"No", F(0)>>, <<"Yes", F(10)>>}
FemaleMale == {<<"Female", F(0)>>, <<"Male", F(10)>>}

YesNoWidgets == {"high_bp", "high_chol", "chol_check", "stroke", "heart_disease",
                 "phys_activity", "fruits", "veggies", "smoker", "alcohol",
                 "diff_walk"}

Widgets == YesNoWidgets \cup {"bmi", "sex", "age", "education", "income",
                              "gen_health", "mental_health", "phys_health"}

\* The values each widget can report.
Options(w) ==
    CASE w \in YesNoWidgets -> YesNo
      [] w = "sex" -> FemaleMale
      [] w = "bmi" -> {F(x) : x \in BMI_MIN..BMI_MAX}
      [] w = "age" -> {I(n) : n \in 1..13}
      [] w = "education" -> {I(n) : n \in 1..6}
      [] w = "income" -> {I(n) : n \in 1..8}
      [] w = "gen_health" -> {F(10 * n) : n \in 1..5}
      [] w = "mental_health" -> {I(n) : n \in 0..DAYS_MAX}
      [] w = "phys_health" -> {I(n) : n \in 0..DAYS_MAX}

\* What each widget reports before the user touches it: index 0 of a
\* selectbox, the first option of a select_slider, or the value= argument.
Defaults ==
    [w \in Widgets |->
        CASE w \in YesNoWidgets -> <<"No", F(0)>>
          [] w = "sex" -> <<"Female", F(0)>>
          [] w = "bmi" -> F(BMI_DEFAULT)
          [] w = "age" -> I(1)
          [] w = "education" -> I(1)
          [] w = "income" -> I(1)
          [] w = "gen_health" -> F(30)
          [] w = "mental_health" -> I(0)
          [] w = "phys_health" -> I(0)]

\* The selections a user makes in the model: every option of the two-way
\* and ordinal widgets, the ends and the default of the numeric ranges.
Inputs(w) ==
    CASE w = "bmi" -> {F(BMI_MIN), F(BMI_DEFAULT), F(BMI_MAX)}
      [] w = "age" -> {I(1), I(3), I(13)}
      [] w = "education" -> {I(1), I(4), I(6)}
      [] w = "income" -> {I(1), I(5), I(8)}
      [] w = "gen_health" -> {F(10), F(30), F(50)}
      [] w \in {"mental_health", "phys_health"} -> {I(0), I(DAYS_MAX)}
      [] OTHER -> Options(w)

Edited(sel) == Cardinality({w \in Widgets : sel[w] # Defaults[w]})

(* --------------------------- feature encoder --------------------------- *)

\* selectbox(...)[1]: the numeric half of the selected (label, value) pair.
Second(option) == option[2]

\* Variant: every value read from the form is cast with float().
Locals_AllFloat(sel) ==
    [w \in Widgets |->
        IF w \in YesNoWidgets \cup {"sex"}
        THEN Second(sel[w])
        ELSE [ty |-> "float", x10 |-> sel[w].x10]]

\* The local variables of main() after the widgets have been read.
Locals(sel) ==
    [w \in Widgets |-> IF w \in YesNoWidgets \cup {"sex"} THEN Second(sel[w]) ELSE sel[w]]

\* Variant: smoker and stroke change places in the list.
FeatureList_Swapped(v) ==
    << v.high_bp, v.high_chol, v.chol_check, v.bmi, v.stroke, v.smoker,
       v.heart_disease, v.phys_activity, v.fruits, v.veggies, v.alcohol,
       v.gen_health, v.mental_health, v.phys_health, v.diff_walk, v.sex,
       v.age, v.education, v.income >>

FeatureList(v) ==
    << v.high_bp, v.high_chol, v.chol_check, v.bmi, v.smoker, v.stroke,
       v.heart_disease, v.phys_activity, v.fruits, v.veggies, v.alcohol,
       v.gen_health, v.mental_health, v.phys_health, v.diff_walk, v.sex,
       v.age, v.education, v.income >>

(* ---------------------------- model artifact --------------------------- *)

\* predictor.pickle: missing, present but not loadable, or one of two
\* stand-in classifiers (the real one is an opaque third-party object).
Classifiers == {"int_labels", "odd_labels"}
ArtifactStates == {"absent", "corrupt"} \cup Classifiers

\* The label a classifier gives one row. int_labels answers with the ints
\* 0 and 1; odd_labels answers 1.0 and the unexpected label 2.
Classify(m, row) ==
    IF m = "int_labels"
    THEN (IF PyEq(row[1], I(1)) THEN I(1) ELSE I(0))
    ELSE (IF PyEq(row[1], I(1)) THEN F(10) ELSE I(2))

\* model.predict(batch): one label per row of the batch.
ModelPredict(m, batch) == [i \in 1..Len(batch) |-> Classify(m, batch[i])]

(* ----------------------------- model invoker --------------------------- *)

\* Variant: load_model() without its except clause.
load_model_NoExcept(a) ==
    IF a \in {"absent", "corrupt"}
    THEN [raised |-> TRUE, value |-> "None", messages |-> {}]
    ELSE [raised |-> FALSE, value |-> a, messages |-> {}]

\* The body of load_model() run against the artifact: the value returned
\* ("None" or the unpickled classifier), the elements it displayed, and
\* whether an exception left it instead.
load_model(a) ==
    CASE a = "absent" ->
           [raised |-> FALSE, value |-> "None", messages |-> {"ModelFileNotFound"}]
      [] a = "corrupt" ->
           [raised |-> TRUE, value |-> "None", messages |-> {}]
      [] OTHER ->
           [raised |-> FALSE, value |-> a, messages |-> {}]

\* Variant: a cache that stores the value alone and shows nothing on a hit.
Replay_Nothing(entry) == {}

\* st.cache_resource on a hit: the elements recorded with the entry are
\* shown again.
Replay(entry) == entry.messages

\* Variant: predict() returns int(label).
predict_IntCast(model, fl) ==
    IF model = "None"
    THEN [calls |-> <<>>, ret |-> None]
    ELSE [calls |-> << <<fl>> >>,
          ret |-> [ty |-> "int", x10 |-> ModelPredict(model, <<fl>>)[1].x10]]

\* predict() once load_model() has returned model: the batches handed to
\* the classifier and the value returned.
predict(model, fl) ==
    IF model = "None"
    THEN [calls |-> <<>>, ret |-> None]
    ELSE [calls |-> << <<fl>> >>, ret |-> ModelPredict(model, <<fl>>)[1]]

\* Variant: the banner test is "== 0" for Lower Risk, Higher Risk otherwise.
ShowResult_ZeroIsLow(prediction_result) ==
    IF prediction_result # None
    THEN {"AssessmentResults", "ImportantNotice"}
         \cup (IF PyEq(prediction_result, I(0)) THEN {"LowerRisk"} ELSE {"HigherRisk"})
    ELSE {}

\* What main() displays for a prediction result.
ShowResult(prediction_result) ==
    IF prediction_result # None
    THEN {"AssessmentResults", "ImportantNotice"}
         \cup (IF PyEq(prediction_result, I(1)) THEN {"HigherRisk"} ELSE {"LowerRisk"})
    ELSE {}

Min(a, b) == IF a < b THEN a ELSE b

(* -------------------------------- state -------------------------------- *)

EmptyCache == [stored |-> FALSE, value |-> "None", messages |-> {}]

Init ==
    /\ widgets = [s \in Sessions |-> Defaults]
    /\ pc = [s \in Sessions |-> "ready"]
    /\ feature_list = [s \in Sessions |-> <<>>]
    /\ batches = [s \in Sessions |-> <<>>]
    /\ result = [s \in Sessions |-> Pending]
    /\ display = [s \in Sessions |-> {}]
    /\ cache = EmptyCache
    /\ lock = 0
    /\ artifact \in ArtifactStates
    /\ reads = 0
    /\ changes = 0

(* ------------------------------- actions ------------------------------- *)

\* The user changes widget w to v: the script reruns with the button not
\* pressed, so nothing of an earlier submission stays on the page.
Select(s, w, v) ==
    /\ pc[s] = "ready"
    /\ v # widgets[s][w]
    /\ widgets' = [widgets EXCEPT ![s][w] = v]
    /\ feature_list' = [feature_list EXCEPT ![s] = <<>>]
    /\ batches' = [batches EXCEPT ![s] = <<>>]
    /\ result' = [result EXCEPT ![s] = Pending]
    /\ display' = [display EXCEPT ![s] = {}]
    /\ UNCHANGED <<pc, cache, lock, artifact, reads, changes>>

\* "Generate Risk Assessment": the rerun builds feature_list and enters
\* predict(), which calls the cached load_model().
Click(s) ==
    /\ pc[s] = "ready"
    /\ feature_list' = [feature_list EXCEPT ![s] = FeatureList(Locals(widgets[s]))]
    /\ batches' = [batches EXCEPT ![s] = <<>>]
    /\ result' = [result EXCEPT ![s] = Pending]
    /\ display' = [display EXCEPT ![s] = {}]
    /\ pc' = [pc EXCEPT ![s] = "called"]
    /\ UNCHANGED <<widgets, cache, lock, artifact, reads, changes>>

\* load_model() has returned model to predict(): the rest of the script
\* run touches only the session.
Return(s, model, messages) ==
    /\ batches' = [batches EXCEPT ![s] = predict(model, feature_list[s]).calls]
    /\ result' = [result EXCEPT ![s] = predict(model, feature_list[s]).ret]
    /\ display' = [display EXCEPT ![s] =
                      messages \cup ShowResult(predict(model, feature_list[s]).ret)]
    /\ pc' = [pc EXCEPT ![s] = "ready"]

\* The exception leaves load_model(), predict() and main(); Streamlit ends
\* the script run and shows the traceback.
Escape(s) ==
    /\ result' = [result EXCEPT ![s] = Raised]
    /\ display' = [display EXCEPT ![s] = {"Traceback"}]
    /\ pc' = [pc EXCEPT ![s] = "ready"]
    /\ UNCHANGED batches

\* st.cache_resource, first look: the entry is there.
CacheHit(s) ==
    /\ pc[s] = "called"
    /\ cache.stored
    /\ Return(s, cache.value, Replay(cache))
    /\ UNCHANGED <<widgets, feature_list, cache, lock, artifact, reads, changes>>

\* st.cache_resource, first look: no entry; the caller goes for the lock
\* that guards the computation.
CacheMiss(s) ==
    /\ pc[s] = "called"
    /\ ~cache.stored
    /\ pc' = [pc EXCEPT ![s] = "miss"]
    /\ UNCHANGED <<widgets, feature_list, batches, result, display,
                   cache, lock, artifact, reads, changes>>

\* The caller gets the lock and looks again: another caller may have
\* stored the entry meanwhile.
AcquireLock(s) ==
    /\ pc[s] = "miss"
    /\ lock = 0
    /\ IF cache.stored
       THEN /\ Return(s, cache.value, Replay(cache))
            /\ UNCHANGED lock
       ELSE /\ lock' = s
            /\ pc' = [pc EXCEPT ![s] = "computing"]
            /\ UNCHANGED <<batches, result, display>>
    /\ UNCHANGED <<widgets, feature_list, cache, artifact, reads, changes>>

\* load_model() runs under the lock: open and unpickle predictor.pickle.
\* A returned value, None included, is stored with the elements shown; an
\* exception stores nothing. The lock is released either way.
LoadModel(s) ==
    /\ pc[s] = "computing"
    /\ lock = s
    /\ reads' = Min(reads + 1, ReadsCap)
    /\ lock' = 0
    /\ IF load_model(artifact).raised
       THEN /\ Escape(s)
            /\ UNCHANGED cache
       ELSE /\ cache' = [stored |-> TRUE,
                         value |-> load_model(artifact).value,
                         messages |-> load_model(artifact).messages]
            /\ Return(s, load_model(artifact).value, load_model(artifact).messages)
    /\ UNCHANGED <<widgets, feature_list, artifact, changes>>

\* The environment installs, removes or damages predictor.pickle.
SetArtifact(a) ==
    /\ changes < MaxArtifactChanges
    /\ a # artifact
    /\ artifact' = a
    /\ changes' = changes + 1
    /\ UNCHANGED <<widgets, pc, feature_list, batches, result, display,
                   cache, lock, reads>>

(* ---------------------------- specifications --------------------------- *)

\* The widgets changed while several sessions submit concurrently.
SharedRunWidgets == {"high_bp"}

Next ==
    \/ \E s \in Sessions, w \in SharedRunWidgets : \E v \in Inputs(w) : Select(s, w, v)
    \/ \E s \in Sessions : Click(s)
    \/ \E s \in Sessions : CacheHit(s)
    \/ \E s \in Sessions : CacheMiss(s)
    \/ \E s \in Sessions : AcquireLock(s)
    \/ \E s \in Sessions : LoadModel(s)
    \/ \E a \in ArtifactStates : SetArtifact(a)

\* The whole program: every session fills the form and submits, the
\* submissions interleave at the cache, the artifact changes under them.
Spec == Init /\ [][Next]_vars

\* One session and every widget: the form up to the call of predict().
InitEncoder == Init /\ artifact = "int_labels"

NextEncoder ==
    \/ \E w \in Widgets : \E v \in Inputs(w) :
          Select(1, w, v) /\ Edited(widgets'[1]) <= MaxEdits
    \/ Click(1)

SpecEncoder == InitEncoder /\ [][NextEncoder]_vars

(* ------------------------- documented contract ------------------------- *)

\* The documented order of the 19 features.
Features ==
    << "HighBP", "HighChol", "CholCheck", "BMI", "Smoker", "Stroke",
       "HeartDiseaseOrAttack", "PhysActivity", "Fruits", "Veggies",
       "HvyAlcoholConsump", "GenHealth", "MentHlth", "PhysHlth", "DiffWalk",
       "Sex", "Age", "Education", "Income" >>

\* The widget that asks for each documented feature.
WidgetOf(f) ==
    CASE f = "HighBP" -> "high_bp"
      [] f = "HighChol" -> "high_chol"
      [] f = "CholCheck" -> "chol_check"
      [] f = "BMI" -> "bmi"
      [] f = "Smoker" -> "smoker"
      [] f = "Stroke" -> "stroke"
      [] f = "HeartDiseaseOrAttack" -> "heart_disease"
      [] f = "PhysActivity" -> "phys_activity"
      [] f = "Fruits" -> "fruits"
      [] f = "Veggies" -> "veggies"
      [] f = "HvyAlcoholConsump" -> "alcohol"
      [] f = "GenHealth" -> "gen_health"
      [] f = "MentHlth" -> "mental_health"
      [] f = "PhysHlth" -> "phys_health"
      [] f = "DiffWalk" -> "diff_walk"
      [] f = "Sex" -> "sex"
      [] f = "Age" -> "age"
      [] f = "Education" -> "education"
      [] f = "Income" -> "income"

BinaryFeatures ==
    {"HighBP", "HighChol", "CholCheck", "Stroke", "HeartDiseaseOrAttack",
     "PhysActivity", "Fruits", "Veggies", "Smoker", "HvyAlcoholConsump",
     "DiffWalk", "Sex"}

IntegerFeatures == {"MentHlth", "PhysHlth", "Age", "Education", "Income"}

\* The documented value of feature f under the selection sel: 1.0 for the
\* labels Yes and Male, 0.0 for No and Female, the slider or input value
\* otherwise.
CurrentValue(sel, f) ==
    IF f \in BinaryFeatures
    THEN (IF sel[WidgetOf(f)][1] \in {"Yes", "Male"} THEN F(10) ELSE F(0))
    ELSE sel[WidgetOf(f)]

ExampleSelection ==
    [Defaults EXCEPT !.high_bp = <<"Yes", F(10)>>, !.sex = <<"Male", F(10)>>,
                     !.age = I(3), !.education = I(4), !.income = I(5)]

ExampleVector ==
    << F(10), F(0), F(0), F(250), F(0), F(0), F(0), F(0), F(0), F(0), F(0),
       F(30), I(0), I(0), F(0), F(10), I(3), I(4), I(5) >>

\* Session s has made a submission and its predict() call is over.
Completed(s) == pc[s] = "ready" /\ result[s] # Pending

InvokerState ==
    IF ~cache.stored THEN "Unloaded"
    ELSE IF cache.value = "None" THEN "LoadFailed" ELSE "Loaded"

Banners == {"HigherRisk", "LowerRisk"}

(* -------------------------------- claims ------------------------------- *)

\* C1: whatever the widgets show when "Generate Risk Assessment" is
\* pressed, the feature list has 19 elements and element i is the current
\* value of documented feature i; the documented example selection gives
\* the documented example vector.
C1_FeatureOrder ==
    pc[1] = "called" =>
        /\ Len(feature_list[1]) = 19
        /\ \A i \in 1..19 : feature_list[1][i] = CurrentValue(widgets[1], Features[i])
        /\ widgets[1] = ExampleSelection => feature_list[1] = ExampleVector

C1_Witness ==
    /\ pc[1] = "called"
    /\ widgets[1] = ExampleSelection
    /\ feature_list[1] = ExampleVector

\* C8: every binary field of a feature list passed to predict is exactly
\* 0.0 or exactly 1.0: 0.0 for No and Female, 1.0 for Yes and Male.
C8_BinaryFields ==
    pc[1] = "called" =>
        \A i \in 1..19 : Features[i] \in BinaryFeatures =>
            /\ feature_list[1][i] \in {F(0), F(10)}
            /\ feature_list[1][i] = F(10) <=>
                   widgets[1][WidgetOf(Features[i])][1] \in {"Yes", "Male"}
            /\ feature_list[1][i] = F(0) <=>
                   widgets[1][WidgetOf(Features[i])][1] \in {"No", "Female"}

C8_Witness ==
    /\ pc[1] = "called"
    /\ widgets[1].sex[1] = "Male"
    /\ widgets[1].smoker[1] = "Yes"
    /\ widgets[1].high_bp[1] = "No"
    /\ feature_list[1][16] = F(10)
    /\ feature_list[1][5] = F(10)
    /\ feature_list[1][1] = F(0)

\* C9 as stated: every one of the 19 elements of a feature list passed to
\* predict is a float.
C9_AllFloat ==
    pc[1] = "called" => \A i \in 1..19 : feature_list[1][i].ty = "float"

\* C9 as amended: the 12 binary fields, BMI and GenHealth are floats;
\* MentHlth, PhysHlth, Age, Education and Income are ints.
C9_ElementTypes ==
    pc[1] = "called" =>
        \A i \in 1..19 :
            feature_list[1][i].ty =
                (IF Features[i] \in IntegerFeatures THEN "int" ELSE "float")

C9_Witness ==
    /\ pc[1] = "called"
    /\ widgets[1].age = I(13)
    /\ widgets[1].mental_health = I(DAYS_MAX)
    /\ widgets[1].bmi = F(BMI_MAX)
    /\ feature_list[1][17] = I(13)
    /\ feature_list[1][13] = I(DAYS_MAX)
    /\ feature_list[1][4] = F(BMI_MAX)

\* C2: while predictor.pickle has been absent since the process started,
\* every predict call that is over returned None and raised nothing, the
\* first one (which ran load_model) and the later ones (served from the
\* cache) alike.
C2_AbsentReturnsNone ==
    (changes = 0 /\ artifact = "absent") =>
        \A s \in Sessions : Completed(s) => result[s] = None

C2_Witness ==
    /\ changes = 0
    /\ artifact = "absent"
    /\ reads = 1
    /\ \A s \in Sessions : Completed(s) /\ result[s] = None

\* C3: while predictor.pickle has been present but unreadable since the
\* process started, every predict call that is over returned None and
\* raised nothing.
C3_UnreadableReturnsNone ==
    (changes = 0 /\ artifact = "corrupt") =>
        \A s \in Sessions : Completed(s) => result[s] = None

\* C4: predictor.pickle is read at most once in the process, and every
\* label returned was computed by the one cached classifier.
C4_LoadedAtMostOnce ==
    /\ reads <= 1
    /\ \A s \in Sessions :
          (Completed(s) /\ IsNumber(result[s])) =>
              /\ InvokerState = "Loaded"
              /\ result[s] = Classify(cache.value, feature_list[s])

\* C5: once a predict call is over the Invoker is Loaded or LoadFailed; it
\* never leaves either, and it never goes back to Unloaded.
C5_StateMachine ==
    /\ [](\A s \in Sessions : Completed(s) => InvokerState # "Unloaded")
    /\ [][/\ InvokerState = "Loaded" => InvokerState' = "Loaded"
          /\ InvokerState = "LoadFailed" => InvokerState' = "LoadFailed"
          /\ InvokerState # "Unloaded" => cache' = cache]_vars

\* C6: a predict call that returned a label handed the classifier exactly
\* one batch, whose one row is the feature list as built from the widgets,
\* and returned the classifier's label for that row as it was: the int 1
\* stays the int 1, the int 0 the int 0, 1.0 stays 1.0.
C6_RawLabel ==
    \A s \in Sessions :
        (Completed(s) /\ IsNumber(result[s])) =>
            /\ feature_list[s] = FeatureList(Locals(widgets[s]))
            /\ batches[s] = << <<feature_list[s]>> >>
            /\ result[s] = Classify(cache.value, feature_list[s])
            /\ (cache.value = "int_labels" /\ widgets[s].high_bp[1] = "Yes")
                   => result[s] = I(1)
            /\ (cache.value = "int_labels" /\ widgets[s].high_bp[1] = "No")
                   => result[s] = I(0)

C6_Witness ==
    /\ cache.value = "int_labels"
    /\ Completed(1) /\ result[1] = I(1)
    /\ Completed(2) /\ result[2] = I(0)
    /\ batches[1] = << <<feature_list[1]>> >>

C10_OneBanner ==
    \A s \in Sessions :
        (Completed(s) /\ IsNumber(result[s])) =>
            /\ "HigherRisk" \in display[s] <=> PyEq(result[s], I(1))
            /\ "LowerRisk" \in display[s] <=> ~PyEq(result[s], I(1))
            /\ Cardinality(display[s] \cap Banners) = 1

C10_Witness ==
    /\ Completed(1) /\ result[1] = I(2) /\ display[1] \cap Banners = {"LowerRisk"}
    /\ Completed(2) /\ result[2] = F(10) /\ display[2] \cap Banners = {"HigherRisk"}

====
